---- MODULE Spec2Model ----
(***************************************************************************)
(* Model of src/scripts/dadis_client/vbo_sandbox.ipynb: merge() and its    *)
(* driver obsolete_and_write().                                            *)
(*                                                                         *)
(* A data frame is [columns |-> set of column names, rows |-> sequence of  *)
(* rows], a row being a function from the frame's columns to cells.  A     *)
(* cell is either a string s, written Str(s), or the missing value NaN     *)
(* that pandas puts where a field of the file is empty or a column is      *)
(* absent from one of the frames that are concatenated.                    *)
(*                                                                         *)
(* Python names refer to objects: df[mask] and .copy() make new objects,   *)
(* frame[col] = v changes the object the name refers to.  The objects live *)
(* in `heap`; the local names of merge() hold indices into it.             *)
(***************************************************************************)
EXTENDS Integers, Sequences, FiniteSets, TLC

VARIABLES
    template,                  \* the tab-separated text published at template_url
    outfile,                   \* the file at path `outfile` (NoFile: does not exist)
    pc,                        \* position of the run of obsolete_and_write
    err,                       \* the uncaught exception that ended the run ("" if none)
    calls,                     \* the steps of obsolete_and_write begun so far, in order
    heap,                      \* the data frame objects allocated so far
    df,                        \* local names: indices into heap, 0 when unbound
    df_term_to_merge_into,
    df_term_to_obsolete,
    df_term_to_obsolete2,
    term_to_merge_into_label,  \* cells, NaN until assigned
    term_to_obsolete_label,
    out

vars == <<template, outfile, pc, err, calls, heap, df, df_term_to_merge_into,
          df_term_to_obsolete, df_term_to_obsolete2, term_to_merge_into_label,
          term_to_obsolete_label, out>>

locals == <<df_term_to_merge_into, df_term_to_obsolete, df_term_to_obsolete2,
            term_to_merge_into_label, term_to_obsolete_label, out>>

---------------------------------------------------------------------------
(* Cells *)

NaN == <<>>

Str(s) == <<s>>

---------------------------------------------------------------------------
(* Parameters of the run (first and last notebook cell) *)

term_to_obsolete == "VBO:0200238"

term_to_merge_into == "VBO:0200239"

issue == 123

\* an id of the table that is neither of the two
unrelated_term == "VBO:0200240"

---------------------------------------------------------------------------
(* Columns *)

\* the columns merge() names
ExpectedColumns ==
    {"vbo_id", "term_label", "contributor", "obsoletion_type", "obsolete",
     "contributors", "replacement_term", "replacement_label",
     "obsolescence_reason", "GH_issue", "synonym_label_from_merged_term",
     "source_for_merged_term", "synonym_type_most_common_name"}

\* a descriptive column of the table that merge() does not name
OtherColumns == {"breed_domain"}

AllColumns == ExpectedColumns \cup OtherColumns

\* a keep list that forgets contributor
list_of_columns_to_keep_without_contributor == {"term_label", "vbo_id"}

\* line 34
list_of_columns_to_keep == {"term_label", "vbo_id", "contributor"}

---------------------------------------------------------------------------
(* Bounds and the tables the run is tried on *)

MaxRows == 3

\* the full header, or the header with one column left out
Headers == {AllColumns} \cup {AllColumns \ {c} : c \in AllColumns}

Ids == {term_to_obsolete, term_to_merge_into, unrelated_term}

\* "full": every field filled; "sparse": only id and label filled;
\* "nolabel": every field filled but the label
Variants(id) ==
    CASE id = term_to_obsolete   -> {"full", "sparse", "nolabel"}
      [] id = term_to_merge_into -> {"full", "nolabel"}
      [] OTHER                   -> {"full"}

LabelText(id, v) ==
    IF v = "nolabel" THEN ""
    ELSE (CASE id = term_to_obsolete   -> "Foo"
            [] id = term_to_merge_into -> "Bar"
            [] OTHER                   -> "Baz")
         \o (IF v = "sparse" THEN " (alt)" ELSE "")

\* one line of the published file: every field is text, "" when empty
TextRow(cols, id, v) ==
    [c \in cols |->
        CASE c = "vbo_id"     -> id
          [] c = "term_label" -> LabelText(id, v)
          [] OTHER            -> IF v = "sparse" THEN "" ELSE c \o " of " \o id]

TextRows(cols) == UNION {{TextRow(cols, id, v) : v \in Variants(id)} : id \in Ids}

Templates ==
    UNION {{[columns |-> cols, rows |-> rs] :
                rs \in UNION {[1..n -> TextRows(cols)] : n \in 0..MaxRows}} :
           cols \in Headers}

NoFile == [columns |-> {}, rows |-> <<"no such file">>]

---------------------------------------------------------------------------
(* pandas operations used by the notebook *)

\* pd.read_csv(url, sep="\t"): an empty field is read as NaN
read_csv(file) ==
    [columns |-> file.columns,
     rows    |-> [i \in DOMAIN file.rows |->
                    [c \in file.columns |->
                        IF file.rows[i][c] = "" THEN NaN ELSE Str(file.rows[i][c])]]]

\* frame.to_csv(path, sep="\t", index=False): NaN is written as an empty field
to_csv(frame) ==
    [columns |-> frame.columns,
     rows    |-> [i \in DOMAIN frame.rows |->
                    [c \in frame.columns |->
                        IF frame.rows[i][c] = NaN THEN "" ELSE frame.rows[i][c][1]]]]

\* a selection that keeps the first matching row only
SelectFirst(frame, id) ==
    LET all == SelectSeq(frame.rows, LAMBDA r : r["vbo_id"] = Str(id))
    IN  [columns |-> frame.columns, rows |-> SubSeq(all, 1, IF all = <<>> THEN 0 ELSE 1)]

\* frame[frame["vbo_id"] == id]: a new frame holding every row whose vbo_id
\* equals id, in table order (NaN equals nothing)
Select(frame, id) ==
    [columns |-> frame.columns,
     rows    |-> SelectSeq(frame.rows, LAMBDA r : r["vbo_id"] = Str(id))]

\* an assignment that leaves the column set as it is
SetColumnIfPresent(frame, col, cell) ==
    [columns |-> frame.columns,
     rows    |-> [i \in DOMAIN frame.rows |->
                    [c \in frame.columns |->
                        IF c = col THEN cell ELSE frame.rows[i][c]]]]

\* frame[col] = cell with a scalar: every row gets the cell; a column the
\* frame does not have is added
SetColumn(frame, col, cell) ==
    [columns |-> frame.columns \cup {col},
     rows    |-> [i \in DOMAIN frame.rows |->
                    [c \in frame.columns \cup {col} |->
                        IF c = col THEN cell ELSE frame.rows[i][c]]]]

\* "text" + frame[col], element by element: NaN stays NaN
StrAdd(text, cell) == IF cell = NaN THEN NaN ELSE Str(text \o cell[1])

PrefixColumn(frame, col, text) ==
    [columns |-> frame.columns,
     rows    |-> [i \in DOMAIN frame.rows |->
                    [c \in frame.columns |->
                        IF c = col THEN StrAdd(text, frame.rows[i][c])
                        ELSE frame.rows[i][c]]]]

\* the rows of a frame over a wider column set, NaN where it has no column
Reindex(frame, cols) ==
    [i \in DOMAIN frame.rows |->
        [c \in cols |-> IF c \in frame.columns THEN frame.rows[i][c] ELSE NaN]]

\* pd.concat([a, b, c]): rows of a, then b, then c, over the union of columns
concat(a, b, c) ==
    LET cols == a.columns \cup b.columns \cup c.columns
    IN  [columns |-> cols,
         rows    |-> Reindex(a, cols) \o Reindex(b, cols) \o Reindex(c, cols)]

---------------------------------------------------------------------------
(* The statements of merge() as operations on frames *)

GH_issue_url(iss) ==
    "https://github.com/monarch-initiative/vertebrate-breed-ontology/issues/"
        \o ToString(iss)

RECURSIVE BlankFrom(_, _)
BlankFrom(frame, todo) ==
    IF todo = {} THEN frame
    ELSE LET c == CHOOSE x \in todo : TRUE
         IN  BlankFrom(SetColumn(frame, c, Str("")), todo \ {c})

\* lines 34-37
BlankColumns(frame) == BlankFrom(frame, frame.columns \ list_of_columns_to_keep)

\* lines 39-46
AssignObsolete(frame, into_id, into_label, iss) ==
    LET f1 == PrefixColumn(frame, "term_label", "obsolete ")
        f2 == SetColumn(f1, "obsoletion_type", Str("owl:Class"))
        f3 == SetColumn(f2, "obsolete", Str("true"))
        f4 == SetColumn(f3, "contributors", Str(""))
        f5 == SetColumn(f4, "replacement_term", Str(into_id))
        f6 == SetColumn(f5, "replacement_label", into_label)
        f7 == SetColumn(f6, "obsolescence_reason", Str("terms merged"))
    IN  SetColumn(f7, "GH_issue", Str(GH_issue_url(iss)))

\* lines 49-54
UpdateDuplicated(frame, obs_id, obs_label, into_id, iss) ==
    LET f1 == SetColumn(frame, "vbo_id", Str(into_id))
        f2 == SetColumn(f1, "term_label", Str(""))
        f3 == SetColumn(f2, "synonym_label_from_merged_term", obs_label)
        f4 == SetColumn(f3, "source_for_merged_term", Str(obs_id))
        f5 == SetColumn(f4, "synonym_type_most_common_name", Str(""))
    IN  SetColumn(f5, "GH_issue", Str(GH_issue_url(iss)))

NoFrame == [columns |-> {}, rows |-> <<>>]

Raise(e) == [err |-> e, out |-> NoFrame]

Return(frame) == [err |-> "", out |-> frame]

\* a merge that hands back the frame it was given
merge_returns_input(frame, obs_id, into_id, iss) == Return(frame)

\* merge(df, term_to_obsolete, term_to_merge_into, issue) as a function of
\* its arguments: the frame it returns, or the exception it raises
merge(frame, obs_id, into_id, iss) ==
    IF "vbo_id" \notin frame.columns THEN Raise("KeyError")
    ELSE LET into == Select(frame, into_id)
             obs  == Select(frame, obs_id)
         IN  IF "term_label" \notin frame.columns THEN Raise("KeyError")
             ELSE IF into.rows = <<>> \/ obs.rows = <<>> THEN Raise("IndexError")
             ELSE LET into_label == into.rows[1]["term_label"]
                      obs_label  == obs.rows[1]["term_label"]
                  IN  Return(concat(
                          AssignObsolete(BlankColumns(obs), into_id, into_label, iss),
                          UpdateDuplicated(obs, obs_id, obs_label, into_id, iss),
                          into))

---------------------------------------------------------------------------
(* The run *)

Init ==
    /\ template \in Templates
    /\ outfile = NoFile
    /\ pc = "read_csv"
    /\ err = ""
    /\ calls = <<>>
    /\ heap = <<>>
    /\ df = 0
    /\ df_term_to_merge_into = 0
    /\ df_term_to_obsolete = 0
    /\ df_term_to_obsolete2 = 0
    /\ term_to_merge_into_label = NaN
    /\ term_to_obsolete_label = NaN
    /\ out = 0

\* an uncaught exception ends the run where it stands
Abort(e) ==
    /\ pc' = "aborted"
    /\ err' = e

\* a failing fetch with the output file already opened for writing
ReadFailsTruncating ==
    /\ pc = "read_csv"
    /\ calls' = Append(calls, "read")
    /\ Abort("URLError")
    /\ outfile' = [columns |-> {}, rows |-> <<>>]
    /\ UNCHANGED <<template, heap, df, locals>>

\* line 60, the fetch fails: the exception propagates
ReadFails ==
    /\ pc = "read_csv"
    /\ calls' = Append(calls, "read")
    /\ Abort("URLError")
    /\ UNCHANGED <<template, outfile, heap, df, locals>>

\* line 60: df = pd.read_csv(template_url, sep="\t")
ReadCsv ==
    /\ pc = "read_csv"
    /\ calls' = Append(calls, "read")
    /\ heap' = Append(heap, read_csv(template))
    /\ df' = Len(heap) + 1
    /\ pc' = "select"
    /\ UNCHANGED <<template, outfile, err, locals>>

\* lines 27-29 with the selections being views of df and line 29 an alias
MergeSelectNoCopy ==
    /\ pc = "select"
    /\ calls' = Append(calls, "merge")
    /\ IF "vbo_id" \notin heap[df].columns
       THEN /\ Abort("KeyError")
            /\ UNCHANGED <<heap, locals>>
       ELSE /\ heap' = heap \o <<Select(heap[df], term_to_merge_into)>>
            /\ df_term_to_merge_into' = Len(heap) + 1
            /\ df_term_to_obsolete' = df
            /\ df_term_to_obsolete2' = df
            /\ pc' = "labels"
            /\ UNCHANGED <<err, term_to_merge_into_label, term_to_obsolete_label, out>>
    /\ UNCHANGED <<template, outfile, df>>

\* lines 27-29 with line 29 binding a second name to the same frame
MergeSelectAlias ==
    /\ pc = "select"
    /\ calls' = Append(calls, "merge")
    /\ IF "vbo_id" \notin heap[df].columns
       THEN /\ Abort("KeyError")
            /\ UNCHANGED <<heap, locals>>
       ELSE /\ heap' = heap \o <<Select(heap[df], term_to_merge_into),
                                 Select(heap[df], term_to_obsolete)>>
            /\ df_term_to_merge_into' = Len(heap) + 1
            /\ df_term_to_obsolete' = Len(heap) + 2
            /\ df_term_to_obsolete2' = Len(heap) + 2
            /\ pc' = "labels"
            /\ UNCHANGED <<err, term_to_merge_into_label, term_to_obsolete_label, out>>
    /\ UNCHANGED <<template, outfile, df>>

\* lines 27-29: three new frames; df["vbo_id"] raises KeyError without the column
MergeSelect ==
    /\ pc = "select"
    /\ calls' = Append(calls, "merge")
    /\ IF "vbo_id" \notin heap[df].columns
       THEN /\ Abort("KeyError")
            /\ UNCHANGED <<heap, locals>>
       ELSE /\ heap' = heap \o <<Select(heap[df], term_to_merge_into),
                                 Select(heap[df], term_to_obsolete),
                                 Select(heap[df], term_to_obsolete)>>
            /\ df_term_to_merge_into' = Len(heap) + 1
            /\ df_term_to_obsolete' = Len(heap) + 2
            /\ df_term_to_obsolete2' = Len(heap) + 3
            /\ pc' = "labels"
            /\ UNCHANGED <<err, term_to_merge_into_label, term_to_obsolete_label, out>>
    /\ UNCHANGED <<template, outfile, df>>

\* the label of the first row of a selection, NaN standing in when there is none
FirstLabelOrNaN(frame) ==
    IF frame.rows = <<>> THEN NaN ELSE frame.rows[1]["term_label"]

\* lines 31-32 without the failure on an empty selection
MergeLabelsLenient ==
    /\ pc = "labels"
    /\ IF "term_label" \notin heap[df_term_to_merge_into].columns
       THEN /\ Abort("KeyError")
            /\ UNCHANGED <<term_to_merge_into_label, term_to_obsolete_label>>
       ELSE /\ term_to_merge_into_label' = FirstLabelOrNaN(heap[df_term_to_merge_into])
            /\ term_to_obsolete_label' = FirstLabelOrNaN(heap[df_term_to_obsolete])
            /\ pc' = "blank"
            /\ UNCHANGED err
    /\ UNCHANGED <<template, outfile, calls, heap, df, df_term_to_merge_into,
                   df_term_to_obsolete, df_term_to_obsolete2, out>>

\* lines 31-32: frame["term_label"] raises KeyError without the column,
\* .values[0] raises IndexError on a selection without rows
MergeLabels ==
    /\ pc = "labels"
    /\ IF "term_label" \notin heap[df_term_to_merge_into].columns
       THEN /\ Abort("KeyError")
            /\ UNCHANGED <<term_to_merge_into_label, term_to_obsolete_label>>
       ELSE IF heap[df_term_to_merge_into].rows = <<>>
                 \/ heap[df_term_to_obsolete].rows = <<>>
       THEN /\ Abort("IndexError")
            /\ UNCHANGED <<term_to_merge_into_label, term_to_obsolete_label>>
       ELSE /\ term_to_merge_into_label' = heap[df_term_to_merge_into].rows[1]["term_label"]
            /\ term_to_obsolete_label' = heap[df_term_to_obsolete].rows[1]["term_label"]
            /\ pc' = "blank"
            /\ UNCHANGED err
    /\ UNCHANGED <<template, outfile, calls, heap, df, df_term_to_merge_into,
                   df_term_to_obsolete, df_term_to_obsolete2, out>>

\* lines 34-37
MergeBlank ==
    /\ pc = "blank"
    /\ heap' = [heap EXCEPT ![df_term_to_obsolete] = BlankColumns(@)]
    /\ pc' = "obsolete"
    /\ UNCHANGED <<template, outfile, err, calls, df, locals>>

\* lines 39-46
MergeObsolete ==
    /\ pc = "obsolete"
    /\ heap' = [heap EXCEPT ![df_term_to_obsolete] =
                    AssignObsolete(@, term_to_merge_into, term_to_merge_into_label, issue)]
    /\ pc' = "duplicated"
    /\ UNCHANGED <<template, outfile, err, calls, df, locals>>

\* lines 49-54 with the issue link also put on the replacement frame
MergeDuplicatedAlsoInto ==
    /\ pc = "duplicated"
    /\ heap' = [heap EXCEPT
                    ![df_term_to_obsolete2] =
                        UpdateDuplicated(@, term_to_obsolete, term_to_obsolete_label,
                                         term_to_merge_into, issue),
                    ![df_term_to_merge_into] =
                        SetColumn(@, "GH_issue", Str(GH_issue_url(issue)))]
    /\ pc' = "concat"
    /\ UNCHANGED <<template, outfile, err, calls, df, locals>>

\* lines 49-54
MergeDuplicated ==
    /\ pc = "duplicated"
    /\ heap' = [heap EXCEPT ![df_term_to_obsolete2] =
                    UpdateDuplicated(@, term_to_obsolete, term_to_obsolete_label,
                                     term_to_merge_into, issue)]
    /\ pc' = "concat"
    /\ UNCHANGED <<template, outfile, err, calls, df, locals>>

\* line 56 with the two derived frames in the other order
MergeConcatSwapped ==
    /\ pc = "concat"
    /\ heap' = Append(heap, concat(heap[df_term_to_obsolete2],
                                   heap[df_term_to_obsolete],
                                   heap[df_term_to_merge_into]))
    /\ out' = Len(heap) + 1
    /\ pc' = "to_csv"
    /\ UNCHANGED <<template, outfile, err, calls, df, df_term_to_merge_into,
                   df_term_to_obsolete, df_term_to_obsolete2,
                   term_to_merge_into_label, term_to_obsolete_label>>

\* line 56 and the assignment of line 61
MergeConcat ==
    /\ pc = "concat"
    /\ heap' = Append(heap, concat(heap[df_term_to_obsolete],
                                   heap[df_term_to_obsolete2],
                                   heap[df_term_to_merge_into]))
    /\ out' = Len(heap) + 1
    /\ pc' = "to_csv"
    /\ UNCHANGED <<template, outfile, err, calls, df, df_term_to_merge_into,
                   df_term_to_obsolete, df_term_to_obsolete2,
                   term_to_merge_into_label, term_to_obsolete_label>>

\* line 62: out.to_csv(outfile, sep="\t", index=False)
ToCsv ==
    /\ pc = "to_csv"
    /\ calls' = Append(calls, "write")
    /\ outfile' = to_csv(heap[out])
    /\ pc' = "done"
    /\ UNCHANGED <<template, err, heap, df, locals>>

Next ==
    \/ ReadCsv
    \/ ReadFails
    \/ MergeSelect
    \/ MergeLabels
    \/ MergeBlank
    \/ MergeObsolete
    \/ MergeDuplicated
    \/ MergeConcat
    \/ ToCsv

Spec == Init /\ [][Next]_vars

---------------------------------------------------------------------------
(* Vocabulary of the properties *)

\* the table as read: what df holds when merge() is called
Table == read_csv(template)

\* positions of the rows of the table whose vbo_id is id
RowsOf(id) ==
    IF "vbo_id" \in template.columns
    THEN {i \in DOMAIN template.rows : template.rows[i]["vbo_id"] = id}
    ELSE {}

FirstOf(id) == CHOOSE i \in RowsOf(id) : \A j \in RowsOf(id) : i <= j

\* the n-th smallest position among the rows of id
RECURSIVE Nth(_, _)
Nth(S, n) ==
    LET lo == CHOOSE i \in S : \A j \in S : i <= j
    IN  IF n = 1 THEN lo ELSE Nth(S \ {lo}, n - 1)

Unique ==
    /\ Cardinality(RowsOf(term_to_obsolete)) = 1
    /\ Cardinality(RowsOf(term_to_merge_into)) = 1

FullSchema == ExpectedColumns \subseteq template.columns

\* merge() has returned a frame
Returned == pc \in {"to_csv", "done"}

Result == heap[out]

Url == Str("https://github.com/monarch-initiative/vertebrate-breed-ontology/issues/123")

Blank == Str("")

\* the cell a row of the table has in column c if the table has the column
Orig(i, c) == IF c \in template.columns THEN Table.rows[i][c] ELSE NaN

\* the columns of the table and those assigned to in the obsoletion frame
ObsoletionColumns ==
    template.columns \cup
        {"term_label", "obsoletion_type", "obsolete", "contributors", "replacement_term",
         "replacement_label", "obsolescence_reason", "GH_issue"}

\* the columns of the table and those assigned to in the synonym frame
SynonymColumns ==
    template.columns \cup
        {"vbo_id", "term_label", "synonym_label_from_merged_term",
         "source_for_merged_term", "synonym_type_most_common_name", "GH_issue"}

\* the obsoletion row derived from row i of the table, column c, given the
\* cell `label` its term_label is to hold
ObsoletionCell(i, c, label) ==
    CASE c = "vbo_id"              -> Str(term_to_obsolete)
      [] c = "contributor"         -> Orig(i, c)
      [] c = "term_label"          -> label
      [] c = "obsoletion_type"     -> Str("owl:Class")
      [] c = "obsolete"            -> Str("true")
      [] c = "contributors"        -> Blank
      [] c = "replacement_term"    -> Str(term_to_merge_into)
      [] c = "replacement_label"   -> Orig(FirstOf(term_to_merge_into), "term_label")
      [] c = "obsolescence_reason" -> Str("terms merged")
      [] c = "GH_issue"            -> Url
      [] OTHER                     -> Blank

\* the synonym row derived from row i of the table, column c
SynonymCell(i, c) ==
    CASE c = "vbo_id"                         -> Str(term_to_merge_into)
      [] c = "term_label"                     -> Blank
      [] c = "synonym_label_from_merged_term" -> Orig(FirstOf(term_to_obsolete), "term_label")
      [] c = "source_for_merged_term"         -> Str(term_to_obsolete)
      [] c = "synonym_type_most_common_name"  -> Blank
      [] c = "GH_issue"                       -> Url
      [] OTHER                                -> Orig(i, c)

\* "obsolete " followed by the text of the label field of row i
PrefixedText(i) == Str("obsolete " \o template.rows[i]["term_label"])

\* the same where the row has a label, the missing value where it has none
PrefixedLabel(i) ==
    IF template.rows[i]["term_label"] = "" THEN NaN ELSE PrefixedText(i)

---------------------------------------------------------------------------
(* C1 *)

---------------------------------------------------------------------------
(* C2 *)

\* C2 as stated: on a table with unique rows for both ids, every column of the
\* first returned row is determined: vbo_id and contributor as in the obsolete
\* row, term_label "obsolete " followed by the obsolete row's label, the eight
\* assigned columns as assigned, every other column of the table the empty
\* string.
C2_Original ==
    (Unique /\ Returned) =>
        \A c \in ObsoletionColumns :
            Result.rows[1][c] =
                ObsoletionCell(FirstOf(term_to_obsolete), c,
                               PrefixedText(FirstOf(term_to_obsolete)))

\* C2 amended: the same, except that term_label is "obsolete " followed by the
\* label only when the obsolete row has a label; when its label field is
\* empty, the term_label of the first returned row is the missing value.
C2_ObsoletionRow ==
    (Unique /\ Returned) =>
        \A c \in ObsoletionColumns :
            Result.rows[1][c] =
                ObsoletionCell(FirstOf(term_to_obsolete), c,
                               PrefixedLabel(FirstOf(term_to_obsolete)))

C2_Witness ==
    /\ pc = "done"
    /\ Unique
    /\ template.columns = AllColumns
    /\ Table.rows[FirstOf(term_to_obsolete)]["breed_domain"] # NaN
    /\ Table.rows[FirstOf(term_to_obsolete)]["contributor"] # NaN
    /\ Result.rows[1]["breed_domain"] = Blank
    /\ Result.rows[1]["term_label"] = Str("obsolete Foo")
    /\ Result.rows[1]["replacement_label"] = Str("Bar")

---------------------------------------------------------------------------
(* C3 *)

\* C3: on a table with unique rows for both ids, the second returned row has
\* vbo_id = term_to_merge_into, an empty term_label, the obsolete row's
\* original label (without prefix) in synonym_label_from_merged_term,
\* term_to_obsolete in source_for_merged_term, an empty
\* synonym_type_most_common_name, the issue link in GH_issue, and in every
\* other column of the table the value of the original obsolete row: nothing
\* of the blanking and prefixing of the first row shows in it.
C3_SynonymRow ==
    (Unique /\ Returned) =>
        /\ \A c \in SynonymColumns :
                Result.rows[2][c] = SynonymCell(FirstOf(term_to_obsolete), c)
        /\ Result.rows[1]["GH_issue"] = Result.rows[2]["GH_issue"]

C3_Witness ==
    /\ pc = "done"
    /\ Unique
    /\ template.columns = AllColumns
    /\ Result.rows[2]["synonym_label_from_merged_term"] = Str("Foo")
    /\ Result.rows[1]["term_label"] = Str("obsolete Foo")
    /\ Result.rows[2]["breed_domain"] = Str("breed_domain of VBO:0200238")
    /\ Result.rows[1]["breed_domain"] = Blank

---------------------------------------------------------------------------
(* C4 *)

\* C4 as stated: the third returned row is, column by column, the row of the
\* table whose vbo_id is term_to_merge_into.
C4_Original ==
    Returned =>
        \A c \in template.columns :
            Result.rows[3][c] = Table.rows[FirstOf(term_to_merge_into)][c]

\* C4 amended: the rows returned after the derived rows are the rows of the
\* table whose vbo_id is term_to_merge_into, in table order and unchanged in
\* every column of the table (a column merge had to create is missing in
\* them); this is the third row when the table has exactly one row for
\* term_to_obsolete, and with the expected columns present it is the table's
\* row as a whole.
C4_ReplacementRowsUnchanged ==
    Returned =>
        LET k == Cardinality(RowsOf(term_to_obsolete))
            m == Cardinality(RowsOf(term_to_merge_into))
        IN  /\ Len(Result.rows) >= 2 * k + m
            /\ \A n \in 1..m :
                  /\ \A c \in template.columns :
                        Result.rows[2 * k + n][c] =
                            Table.rows[Nth(RowsOf(term_to_merge_into), n)][c]
                  /\ \A c \in Result.columns \ template.columns :
                        Result.rows[2 * k + n][c] = NaN
                  /\ FullSchema =>
                        Result.rows[2 * k + n] =
                            Table.rows[Nth(RowsOf(term_to_merge_into), n)]
            /\ (k = 1 /\ FullSchema) =>
                  Result.rows[3] = Table.rows[FirstOf(term_to_merge_into)]

C4_Witness ==
    /\ pc = "done"
    /\ Unique
    /\ FullSchema
    /\ Result.rows[3] = Table.rows[FirstOf(term_to_merge_into)]
    /\ Result.rows[3]["GH_issue"] = Str("GH_issue of VBO:0200239")
    /\ Result.rows[2]["GH_issue"] = Url

---------------------------------------------------------------------------
(* C5 *)

\* C5: when the table has no row for term_to_obsolete or none for
\* term_to_merge_into, merge never gets past taking the first label: the run
\* ends in an exception (IndexError when the table has the vbo_id and
\* term_label columns), no frame is returned and nothing is written.
C5_MissingIdIsFatal ==
    (RowsOf(term_to_obsolete) = {} \/ RowsOf(term_to_merge_into) = {}) =>
        /\ pc \in {"read_csv", "select", "labels", "aborted"}
        /\ out = 0
        /\ outfile = NoFile
        /\ (pc = "aborted" /\ err # "URLError"
                /\ {"vbo_id", "term_label"} \subseteq template.columns)
              => err = "IndexError"
        /\ (pc = "aborted") => err \in {"URLError", "KeyError", "IndexError"}

C5_Witness ==
    /\ pc = "aborted"
    /\ err = "IndexError"
    /\ RowsOf(term_to_obsolete) = {}
    /\ RowsOf(term_to_merge_into) # {}
    /\ out = 0

---------------------------------------------------------------------------
(* C6 *)

\* C6 as stated: with several rows for an id the result still has exactly
\* three rows.
C6_Original == Returned => Len(Result.rows) = 3

\* C6 amended: merge keeps every matching row.  With k rows for
\* term_to_obsolete and m rows for term_to_merge_into the result has 2k + m
\* rows: k obsoletion rows, one per obsolete row in table order, then k
\* synonym rows, one per obsolete row, then the m replacement rows.  Only the
\* two labels are taken from the first match: replacement_label is the label
\* of the first replacement row and synonym_label_from_merged_term the label
\* of the first obsolete row.
C6_AllMatchesKept ==
    Returned =>
        LET A == RowsOf(term_to_obsolete)
            B == RowsOf(term_to_merge_into)
            k == Cardinality(A)
            m == Cardinality(B)
        IN  /\ k >= 1
            /\ m >= 1
            /\ Len(Result.rows) = 2 * k + m
            /\ \A n \in 1..k :
                  /\ \A c \in ObsoletionColumns :
                        Result.rows[n][c] =
                            ObsoletionCell(Nth(A, n), c, PrefixedLabel(Nth(A, n)))
                  /\ \A c \in SynonymColumns :
                        Result.rows[k + n][c] = SynonymCell(Nth(A, n), c)
            /\ \A n \in 1..m :
                  \A c \in template.columns :
                      Result.rows[2 * k + n][c] = Table.rows[Nth(B, n)][c]

C6_Witness ==
    /\ pc = "done"
    /\ RowsOf(term_to_obsolete) = {1, 3}
    /\ RowsOf(term_to_merge_into) = {2}
    /\ Len(Result.rows) = 5
    /\ Result.rows[1]["term_label"] = Str("obsolete Foo")
    /\ Result.rows[2]["term_label"] = Str("obsolete Foo (alt)")
    /\ Result.rows[3]["synonym_label_from_merged_term"] = Str("Foo")
    /\ Result.rows[4]["synonym_label_from_merged_term"] = Str("Foo")

---------------------------------------------------------------------------
(* C7 *)

\* the columns merge() assigns to in one of the derived frames
AssignedColumns ==
    {"term_label", "obsoletion_type", "obsolete", "contributors", "replacement_term",
     "replacement_label", "obsolescence_reason", "GH_issue", "vbo_id",
     "synonym_label_from_merged_term", "source_for_merged_term",
     "synonym_type_most_common_name"}

\* C7 as stated: a table lacking one of the expected columns never gets a
\* frame back from merge, and a returned frame has the columns of the table.
C7_Original ==
    /\ ~FullSchema => ~Returned
    /\ Returned => Result.columns = template.columns

\* C7 amended: merge fails with a key-lookup error exactly when the table
\* lacks vbo_id or term_label, the two columns it reads.  A table lacking any
\* other expected column is accepted: assigning to an absent column creates
\* it, so the returned frame has the table's columns plus every assigned column
\* (contributor, which is only kept, is never created), and a created column
\* is missing in the rows that were not assigned to.
C7_OnlyReadColumnsRequired ==
    /\ ({"vbo_id", "term_label"} \subseteq template.columns) => err # "KeyError"
    /\ (~({"vbo_id", "term_label"} \subseteq template.columns)) =>
          /\ ~Returned
          /\ pc \in {"read_csv", "select", "labels", "aborted"}
          /\ (pc = "aborted") => err \in {"URLError", "KeyError"}
    /\ Returned =>
          /\ Result.columns = template.columns \cup AssignedColumns
          /\ ("contributor" \in Result.columns) = ("contributor" \in template.columns)

C7_Witness ==
    /\ pc = "done"
    /\ "obsolete" \notin template.columns
    /\ "obsolete" \in Result.columns
    /\ Unique
    /\ Result.rows[1]["obsolete"] = Str("true")
    /\ Result.rows[2]["obsolete"] = NaN
    /\ Result.rows[3]["obsolete"] = NaN

---------------------------------------------------------------------------
(* C8 *)

\* C8: merge is not idempotent.  For a table with unique rows for both ids,
\* merge applied with the same arguments to the frame it returned returns a
\* different frame: of the three rows one has vbo_id = term_to_obsolete (the
\* obsoletion row) and two have vbo_id = term_to_merge_into, so the second
\* result has four rows.
C8_NotIdempotent ==
    (Unique /\ Returned) =>
        LET again == merge(Result, term_to_obsolete, term_to_merge_into, issue)
        IN  /\ again.err = ""
            /\ again.out # Result
            /\ Len(again.out.rows) # Len(Result.rows)
            /\ Cardinality({i \in DOMAIN Result.rows :
                    Result.rows[i]["vbo_id"] = Str(term_to_obsolete)}) = 1
            /\ Cardinality({i \in DOMAIN Result.rows :
                    Result.rows[i]["vbo_id"] = Str(term_to_merge_into)}) = 2

C8_Witness ==
    /\ pc = "done"
    /\ Unique
    /\ Len(Result.rows) = 3
    /\ LET again == merge(Result, term_to_obsolete, term_to_merge_into, issue)
       IN  /\ Len(again.out.rows) = 4
           /\ again.out.rows[1]["term_label"] = Str("obsolete obsolete Foo")

---------------------------------------------------------------------------
(* C9 *)

IsPrefix(s, t) == Len(s) <= Len(t) /\ s = SubSeq(t, 1, Len(s))

\* order of the steps, each at most once; the file is written only once merge
\* has returned and then holds the returned rows as text; a failed read or
\* merge ends the run with the file untouched; nothing follows the end
RunDiscipline ==
    /\ IsPrefix(calls, <<"read", "merge", "write">>)
    /\ (outfile # NoFile) =>
          /\ calls = <<"read", "merge", "write">>
          /\ pc = "done"
          /\ out # 0
          /\ outfile = to_csv(Result)
    /\ (pc = "done") => (outfile # NoFile /\ err = "")
    /\ (pc = "aborted") =>
          /\ outfile = NoFile
          /\ err # ""
          /\ "write" \notin {calls[i] : i \in DOMAIN calls}
    /\ (pc \in {"done", "aborted"}) => ~ENABLED Next
    /\ (err # "") => pc = "aborted"

\* C9 as stated: read, merge and write happen in this order, each at most
\* once, the file is written only after merge has returned, a failure leaves
\* the file untouched and nothing is retried, and the written file holds
\* exactly the three rows merge returned.
C9_Original ==
    /\ RunDiscipline
    /\ (pc = "done") => Len(outfile.rows) = 3

\* C9 amended: the same, the written file holding exactly the rows merge
\* returned, which are three when the table has one row for each id and more
\* when it has several.
C9_ReadMergeWriteOnce ==
    /\ RunDiscipline
    /\ (pc = "done") =>
          /\ Len(outfile.rows) = Len(Result.rows)
          /\ Len(outfile.rows) =
                2 * Cardinality(RowsOf(term_to_obsolete))
                    + Cardinality(RowsOf(term_to_merge_into))
          /\ Unique => Len(outfile.rows) = 3

C9_Witness ==
    /\ pc = "done"
    /\ calls = <<"read", "merge", "write">>
    /\ outfile # NoFile
    /\ outfile = to_csv(Result)
    /\ Len(outfile.rows) = 3
    /\ outfile.rows[1]["term_label"] = "obsolete Foo"

---------------------------------------------------------------------------
(* C10 *)

\* C10: merge leaves the frame it is given unchanged: from the read on,
\* whether merge is running, has returned or has failed, df holds the table
\* as read, in every row and column.
C10_InputUnchanged ==
    (df # 0) => heap[df] = Table

C10_Witness ==
    /\ pc = "done"
    /\ Unique
    /\ FullSchema
    /\ heap[df] = Table
    /\ heap[df_term_to_obsolete].rows[1]["obsolete"] = Str("true")
    /\ heap[df_term_to_obsolete2].rows[1]["vbo_id"] = Str(term_to_merge_into)
    /\ heap[df].rows[FirstOf(term_to_obsolete)]["obsolete"] = Str("obsolete of VBO:0200238")

\* the function merge() and the statements of the run agree
MergeAgrees ==
    /\ Returned =>
          merge(Table, term_to_obsolete, term_to_merge_into, issue) = Return(Result)
    /\ (pc = "aborted" /\ err # "URLError") =>
          merge(Table, term_to_obsolete, term_to_merge_into, issue) = Raise(err)

====
